---- MODULE Spec2Model ----
(***************************************************************************)
(* Model of the PIDL engine of Swish (swish/shell_folder/Pidl.h): the      *)
(* allocators, the raw PIDL algorithms (size, clone, combine), the owning  *)
(* wrapper basic_pidl and the operators + and +=; and of two pieces of the *)
(* shell folder: StorageMedium and CSwishFolder::BindToObject.             *)
(*                                                                         *)
(* Memory is a heap of blocks.  A block is a sequence of bytes; a raw PIDL *)
(* is the handle of a block (NULL is no block).  Freeing a handle that is   *)
(* not that of an allocated block, or with the wrong strategy, is recorded *)
(* as a fault; a freed handle may be handed out again by allocate.         *)
(***************************************************************************)
EXTENDS Integers, Sequences, FiniteSets, TLC

VARIABLES
    heap,      \* handle -> [st, kind, mem]: the blocks of memory
    fault,     \* "none", or the first misuse of the heap / failed assertion
    pidls,     \* wrapper slot -> [live, m_pidl, T, alloc]: the basic_pidl objects
    outSlot,   \* the wrapper whose out() slot a producer is about to fill, or NoWrapper
    last,      \* what the last operation was and how it ended
    walk,      \* position of a call of raw_pidl::size that is being stepped
    src,       \* handle -> the records a given raw PIDL was built from
    loose,     \* the blocks owned by the caller: allocated outside the wrappers
    room,      \* the number of blocks the memory has room for
    media,     \* slot -> [live, tymed, res]: the StorageMedium objects (m_medium)
    stg,       \* resource -> the number of references to a storage resource
    folders    \* slot -> [st, refs, held]: the CComObject<CSwishFolder> objects

vars == <<heap, fault, pidls, outSlot, last, walk, src, loose, room, media, stg, folders>>

\* ------------------------------------------------------------------ bounds

MaxHandles == 4
MaxBlocks == 3
NumWrappers == 3
MaxLive == 3
MaxOperandItems == 1
StackDepth == 2
MaxItems == 2
MaxSlack == 1
MaxBytes == 8
NumMediums == 2
MaxResources == 3
MaxRefs == 2
MaxFolders == 2

\* --------------------------------------------------------------- constants

NULL == 0
SizeofCb == 2

Handles == 1..MaxHandles
Wrappers == 1..NumWrappers
NoWrapper == 0

Mediums == 1..NumMediums
Resources == 1..MaxResources
Folders == 1..MaxFolders

\* No StorageMedium object, and no CSwishFolder object, in a slot.
DeadMedium == [live |-> FALSE, tymed |-> 0, res |-> 0]
NoFolder == [st |-> "none", refs |-> 0, held |-> FALSE]

\* A program that has no StorageMedium and has bound to no subfolder.
NoShell ==
    /\ media = [m \in Mediums |-> DeadMedium]
    /\ stg = [r \in Resources |-> 0]
    /\ folders = [f \in Folders |-> NoFolder]

Variants == {"ITEMID_CHILD", "ITEMIDLIST_RELATIVE", "ITEMIDLIST_ABSOLUTE"}
Strategies == {"newdelete_alloc", "cotaskmem_alloc"}

\* ---------------------------------------------------------------- allocators

\* An allocator type is a strategy bound to an element type.
Alloc(strategy, T) == [strategy |-> strategy, elem |-> T]

rebind(A, Other) == [A EXCEPT !.elem = Other]

\* operator== exists for two newdelete_alloc and for two cotaskmem_alloc, of
\* any element types, and returns true; there is no overload for a mixed pair.
alloc_eq(A, B) ==
    CASE A.strategy = "newdelete_alloc" /\ B.strategy = "newdelete_alloc" -> TRUE
      [] A.strategy = "cotaskmem_alloc" /\ B.strategy = "cotaskmem_alloc" -> TRUE

\* basic_pidl<T, Alloc> takes any allocator type as Alloc.  This one stands for
\* an Alloc other than the two above whose operator== returns false; it
\* allocates and frees as they do.
UnequalAlloc == "unequal_alloc"

\* m_allocator == pidl.m_allocator, for the Alloc of the two objects.
m_allocator_eq(A, B) ==
    IF A.strategy = UnequalAlloc /\ B.strategy = UnequalAlloc THEN FALSE ELSE alloc_eq(A, B)

UnusedBlock == [st |-> "unused", kind |-> "none", mem |-> << >>]


LiveHandles(h) == {x \in Handles : h[x].st = "live"}

\* The state an operation threads through its calls: the heap, the number of
\* allocate calls made so far, the call that is to fail (0: none) and the one
\* that did (failed), whether an exception is propagating, whether an
\* assertion has failed, and the value returned by the last call.  full marks
\* an allocation beyond the model's bounds: larger than limit bytes, or of
\* more blocks than the memory has room for.
Machine(h, f, failAt, limit) ==
    [heap |-> h, fault |-> f, attempts |-> 0, failAt |-> failAt, failed |-> 0,
     limit |-> limit, room |-> room,
     threw |-> FALSE, full |-> FALSE, asserted |-> FALSE, ret |-> NULL]

FreshHandle(h) == CHOOSE x \in Handles :
    /\ h[x].st = "unused"
    /\ \A y \in Handles : h[y].st = "unused" => x <= y

\* Alloc::allocate(size): a block of size bytes whose content is not yet
\* written, or std::bad_alloc.  Both strategies throw on failure.
allocate(M, A, len) ==
    LET n == M.attempts + 1 IN
    IF n = M.failAt
    THEN [M EXCEPT !.attempts = n, !.failed = n, !.threw = TRUE, !.ret = NULL]
    ELSE IF len > M.limit \/ Cardinality(LiveHandles(M.heap)) >= M.room
    THEN [M EXCEPT !.attempts = n, !.full = TRUE, !.ret = NULL]
    ELSE LET x == FreshHandle(M.heap) IN
         [M EXCEPT !.attempts = n, !.ret = x,
                   !.heap[x] = [st |-> "live", kind |-> A.strategy,
                                mem |-> [i \in 1..len |-> -1]]]

Blame(M, what) == IF M.fault = "none" THEN [M EXCEPT !.fault = what] ELSE M

\* Alloc::deallocate(mem): delete [] and CoTaskMemFree accept NULL; freeing a
\* block twice, or with the other strategy, is undefined and recorded as a fault.
deallocate(M, A, mem) ==
    IF mem = NULL THEN M
    ELSE IF M.heap[mem].st # "live" THEN Blame(M, "double_free")
    ELSE IF M.heap[mem].kind # A.strategy THEN Blame(M, "mismatched_free")
    ELSE [M EXCEPT !.heap[mem] = UnusedBlock]

\* ------------------------------------------------------------------- traits

traits_combine_type(T) ==
    IF T = "ITEMID_CHILD" THEN "ITEMIDLIST_RELATIVE" ELSE T

\* traits::is_appendable with every variant appendable.
traits_is_appendable_any(T) == TRUE

traits_is_appendable(T) ==
    IF T = "ITEMIDLIST_ABSOLUTE" THEN FALSE ELSE TRUE

\* ------------------------------------------------------- raw PIDL algorithms

\* pidl->mkid.cb at byte offset off of a block: a little-endian USHORT.
mkid_cb(mem, off) == mem[off + 1] + 256 * mem[off + 2]

skip(off, offset) == off + offset

next(mem, off) == skip(off, mkid_cb(mem, off))

\* size_enter with the terminator's own two bytes left out of the count.
size_enter_no_terminator(pidl) ==
    IF pidl = NULL
    THEN [pc |-> "done", pidl |-> NULL, off |-> 0, s |-> 0, reads |-> 0, steps |-> 0]
    ELSE [pc |-> "loop", pidl |-> pidl, off |-> 0, s |-> 0, reads |-> 0, steps |-> 0]

\* size(pidl) up to its loop: the NULL test and the initialisation of s.  The
\* position of a call is [pc, pidl, off, s, reads, steps]: off is the byte
\* offset pidl has been advanced by, reads the number of bytes of the block
\* looked at so far, steps the number of times the loop body has run.
size_enter(pidl) ==
    IF pidl = NULL
    THEN [pc |-> "done", pidl |-> NULL, off |-> 0, s |-> 0, reads |-> 0, steps |-> 0]
    ELSE [pc |-> "loop", pidl |-> pidl, off |-> 0, s |-> SizeofCb, reads |-> 0,
          steps |-> 0]

\* One evaluation of the while condition of size, and of its body if it holds.
size_step(mem, w) ==
    IF mkid_cb(mem, w.off) # 0
    THEN [w EXCEPT !.s = w.s + mkid_cb(mem, w.off), !.off = next(mem, w.off),
                   !.reads = w.off + SizeofCb, !.steps = w.steps + 1]
    ELSE [w EXCEPT !.pc = "done", !.reads = w.off + SizeofCb]

RECURSIVE size_run(_, _)
size_run(mem, w) == IF w.pc = "done" THEN w.s ELSE size_run(mem, size_step(mem, w))

BytesOf(h, pidl) == IF pidl = NULL THEN << >> ELSE h[pidl].mem

size(h, pidl) == size_run(BytesOf(h, pidl), size_enter(pidl))

\* std::memcpy(dst + at, from, n) on the bytes of a block.
memcpy(dst, at, from, n) ==
    [i \in 1..Len(dst) |-> IF at < i /\ i <= at + n THEN from[i - at] ELSE dst[i]]

\* clone whose memcpy stops before the terminator.
clone_copy_no_terminator(a, from, len) ==
    IF a.threw \/ a.full THEN a
    ELSE [a EXCEPT !.heap[a.ret].mem = memcpy(a.heap[a.ret].mem, 0, from, len - SizeofCb)]

\* clone after Alloc::allocate(len) has returned mem (a.ret), or thrown: the
\* memcpy of len bytes of the PIDL.
clone_copy(a, from, len) ==
    IF a.threw \/ a.full THEN a
    ELSE [a EXCEPT !.heap[a.ret].mem = memcpy(a.heap[a.ret].mem, 0, from, len)]

\* raw_pidl::clone<Alloc>(pidl)
clone(M, A, pidl) ==
    IF pidl = NULL THEN [M EXCEPT !.ret = NULL]
    ELSE clone_copy(allocate(M, A, size(M.heap, pidl)), M.heap[pidl].mem,
                    size(M.heap, pidl))

\* The len of combine: the left terminator is dropped when both sizes are not 0.
combine_len(lhs_len, rhs_len) ==
    IF lhs_len # 0 /\ rhs_len # 0 THEN lhs_len + rhs_len - SizeofCb
    ELSE lhs_len + rhs_len

\* Where combine copies the right PIDL to: over the left terminator, if any.
combine_at(lhs_len) == lhs_len - (IF lhs_len # 0 THEN SizeofCb ELSE 0)

\* combine after allocator_type::allocate(len) has returned mem (a.ret), or
\* thrown: the two memcpy calls.
combine_copy(a, lhs, lhs_len, rhs, rhs_len, at) ==
    IF a.threw \/ a.full THEN a
    ELSE [a EXCEPT !.heap[a.ret].mem =
                       memcpy(memcpy(a.heap[a.ret].mem, 0, lhs, lhs_len), at, rhs, rhs_len)]

\* assert(lhs_len + rhs_len >= sizeof(lhs_pidl->mkid.cb))
combine_asserted(M, lhs_len, rhs_len) ==
    IF lhs_len + rhs_len >= SizeofCb THEN M ELSE [M EXCEPT !.asserted = TRUE]

\* combine_sized with the two PIDLs simply appended: the left terminator is kept.
combine_sized_appended(M, A, lhs, lhs_len, rhs, rhs_len) ==
    combine_copy(allocate(M, A, lhs_len + rhs_len), lhs, lhs_len, rhs, rhs_len, lhs_len)

\* combine once lhs_len and rhs_len are known; lhs and rhs are the bytes of
\* the two PIDLs.
combine_sized(M, A, lhs, lhs_len, rhs, rhs_len) ==
    combine_copy(allocate(combine_asserted(M, lhs_len, rhs_len), A,
                          combine_len(lhs_len, rhs_len)),
                 lhs, lhs_len, rhs, rhs_len, combine_at(lhs_len))

\* combine with the NULL test written with || : NULL when either PIDL is NULL.
combine_either_null(M, A, T, lhs_pidl, rhs_pidl) ==
    IF lhs_pidl = NULL \/ rhs_pidl = NULL THEN [M EXCEPT !.ret = NULL]
    ELSE combine_sized(M, rebind(A, traits_combine_type(T)),
                       BytesOf(M.heap, lhs_pidl), size(M.heap, lhs_pidl),
                       BytesOf(M.heap, rhs_pidl), size(M.heap, rhs_pidl))

\* raw_pidl::combine<Alloc>(lhs_pidl, rhs_pidl) for a left operand of type T*.
\* (The enable_if_c guard on the right operand's type is in the callers below.)
combine(M, A, T, lhs_pidl, rhs_pidl) ==
    IF lhs_pidl = NULL /\ rhs_pidl = NULL THEN [M EXCEPT !.ret = NULL]
    ELSE combine_sized(M, rebind(A, traits_combine_type(T)),
                       BytesOf(M.heap, lhs_pidl), size(M.heap, lhs_pidl),
                       BytesOf(M.heap, rhs_pidl), size(M.heap, rhs_pidl))

\* ------------------------------------------------------------ common state

DeadWrapper == [live |-> FALSE, m_pidl |-> NULL, T |-> "none",
                alloc |-> Alloc("none", "none")]

IdleWalk == [pc |-> "idle", pidl |-> NULL, off |-> 0, s |-> 0, reads |-> 0, steps |-> 0]

\* The record of the last operation: its operands a and b (raw PIDLs or
\* wrappers), what it returned or constructed (ret), the number of allocate
\* calls it made, the type of its result, whether the copy of its return value
\* was elided, whether an assertion failed in it, and the raw PIDL its wrapper
\* owned before (prev), and what size() and empty() returned.
NoOp == [op |-> "none", status |-> "ok", a |-> 0, b |-> 0, ret |-> 0,
         attempts |-> 0, failed |-> 0, rtype |-> "none", elided |-> FALSE,
         asserted |-> FALSE, prev |-> NULL, size |-> 0, empty |-> FALSE]

StatusOf(M) == IF M.threw THEN "bad_alloc" ELSE "ok"

\* ----------------------------------------- the raw algorithms on given PIDLs

\* The records well-formed PIDLs are built from: a length field (>= 2, little
\* endian, counting itself) and its payload.
Items == {<<2, 0>>, <<3, 0, 7>>}

ItemSeqs == UNION {[1..n -> Items] : n \in 0..MaxItems}

RECURSIVE Flatten(_)
Flatten(recs) == IF recs = << >> THEN << >> ELSE Head(recs) \o Flatten(Tail(recs))

\* The bytes of a PIDL of the given records: the records, the terminator, and
\* slack bytes of the block after the terminator.
PidlBytes(recs, slack) == Flatten(recs) \o <<0, 0>> \o [i \in 1..slack |-> 9]

\* No block the raw algorithms are asked for here is larger than this.
RawLimit == 2 * (3 * MaxItems + SizeofCb)

GivenBlock(strategy, recs, slack) ==
    [st |-> "live", kind |-> strategy, mem |-> PidlBytes(recs, slack)]

InitRaw ==
    /\ \E ra \in ItemSeqs, rb \in ItemSeqs, sa \in 0..MaxSlack :
          /\ heap = [x \in Handles |->
                        IF x = 1 THEN GivenBlock("newdelete_alloc", ra, sa)
                        ELSE IF x = 2 THEN GivenBlock("cotaskmem_alloc", rb, 0)
                        ELSE UnusedBlock]
          /\ src = [x \in {1, 2} |-> IF x = 1 THEN ra ELSE rb]
    /\ fault = "none"
    /\ pidls = [x \in Wrappers |-> DeadWrapper]
    /\ outSlot = NoWrapper
    /\ last = NoOp
    /\ walk = IdleWalk
    /\ loose = {1, 2}
    /\ room = MaxHandles
    /\ NoShell


\* The record of a call that is being made: the operation, its operands and
\* the raw PIDL its wrapper owns before the call.
Call(op, a, b, prev) == [NoOp EXCEPT !.op = op, !.a = a, !.b = b, !.prev = prev]

\* ... and of how it ended on machine M.
Done(rec, M) ==
    [rec EXCEPT !.status = StatusOf(M), !.attempts = M.attempts, !.failed = M.failed,
                !.asserted = M.asserted]

\* The caller of clone or combine owns the block it was returned, and frees it
\* with the strategy that allocated it before its next call.
RawIdle == last.op \in {"none", "release"}

\* The state after a call of a raw algorithm that ended on machine M.
RawDone(M, rec) ==
    /\ ~M.full
    /\ heap' = M.heap
    /\ fault' = M.fault
    /\ last' = [Done(rec, M) EXCEPT !.ret = M.ret]

RawRelease ==
    /\ last.op \in {"clone", "combine"}
    /\ RawDone(IF last.ret = NULL THEN Machine(heap, fault, 0, RawLimit)
               ELSE deallocate(Machine(heap, fault, 0, RawLimit),
                               Alloc(heap[last.ret].kind, "none"), last.ret),
               Call("release", NULL, NULL, NULL))
    /\ UNCHANGED <<pidls, outSlot, walk, src, loose, room, media, stg, folders>>

\* A call of size(pidl), entered.
SizeEnter(pidl) ==
    /\ walk.pc # "loop"
    /\ RawIdle
    /\ walk' = size_enter(pidl)
    /\ UNCHANGED <<heap, fault, pidls, outSlot, last, src, loose, room, media, stg, folders>>

\* The call of size goes once round its loop.
SizeIter ==
    /\ walk.pc = "loop"
    /\ walk' = size_step(heap[walk.pidl].mem, walk)
    /\ UNCHANGED <<heap, fault, pidls, outSlot, last, src, loose, room, media, stg, folders>>

\* clone<Alloc>(pidl) called on a raw PIDL.
RawClone(strategy, pidl, failAt) ==
    /\ walk.pc # "loop"
    /\ RawIdle
    /\ walk' = IdleWalk
    /\ RawDone(clone(Machine(heap, fault, failAt, RawLimit),
                     Alloc(strategy, "ITEMIDLIST_RELATIVE"), pidl),
               Call("clone", pidl, NULL, NULL))
    /\ UNCHANGED <<pidls, outSlot, src, loose, room, media, stg, folders>>

\* combine<Alloc>(lhs_pidl, rhs_pidl) called with a const T* and a const U*:
\* the overload exists only when traits<U>::is_appendable.
RawCombine(strategy, T, U, lhs_pidl, rhs_pidl, failAt) ==
    /\ walk.pc # "loop"
    /\ RawIdle
    /\ walk' = IdleWalk
    /\ IF ~traits_is_appendable(U)
       THEN /\ last' = [Call("combine", lhs_pidl, rhs_pidl, NULL) EXCEPT !.status = "rejected"]
            /\ UNCHANGED <<heap, fault, room, media, stg, folders>>
       ELSE RawDone(combine(Machine(heap, fault, failAt, RawLimit), Alloc(strategy, T), T,
                            lhs_pidl, rhs_pidl),
                    [Call("combine", lhs_pidl, rhs_pidl, NULL)
                        EXCEPT !.rtype = traits_combine_type(T)])
    /\ UNCHANGED <<pidls, outSlot, src, loose, room, media, stg, folders>>

NextRaw ==
    \/ \E p \in {NULL, 1, 2} : SizeEnter(p)
    \/ SizeIter
    \/ RawRelease
    \/ \E k \in Strategies, p \in {NULL, 1, 2}, f \in 0..1 : RawClone(k, p, f)
    \/ \E k \in Strategies, T \in Variants, U \in Variants,
          l \in {NULL, 1, 2}, r \in {NULL, 1, 2}, f \in 0..1 :
          RawCombine(k, T, U, l, r, f)

SpecRaw == InitRaw /\ [][NextRaw]_vars

\* --------------------------------------------------------------- basic_pidl

\* join_type as Relative whatever the variant.
join_type_relative(T) == "ITEMIDLIST_RELATIVE"

join_type(T) == traits_combine_type(T)

join_allocator(A, T) == rebind(A, join_type(T))

Wrapper(T, A, m_pidl) == [live |-> TRUE, m_pidl |-> m_pidl, T |-> T, alloc |-> A]

\* What a member function leaves behind: the machine, the object it was called
\* on (or constructed) and the other object it was given.
Res(M, this, other) == [M |-> M, this |-> this, other |-> other]

\* basic_pidl()
basic_pidl_default(T, A) == Wrapper(T, A, NULL)

\* ~basic_pidl()
basic_pidl_destroy(M, this) == deallocate(M, this.alloc, this.m_pidl)

\* A copy constructor that copies the pointer, not the PIDL.
basic_pidl_copy_shallow(M, A, raw) == [M EXCEPT !.ret = raw]

\* basic_pidl(const basic_pidl&) and basic_pidl(const T*): the m_pidl of the
\* new object is clone<Alloc>(raw); it is returned in ret.
basic_pidl_copy(M, A, raw) == clone(M, A, raw)

\* An exception leaving a function declared throw() ends the program.
NoThrow(M) == IF M.threw THEN Blame(M, "terminate") ELSE M

\* operator= after swap(copy): ~copy, return *this.
assign_end(sw) == Res(basic_pidl_destroy(sw.M, sw.other), sw.this, DeadWrapper)

\* The else branch of swap after pidl = temp: ~temp.
swap_end(b, this, temp) == Res(NoThrow(basic_pidl_destroy(b.M, temp)), this, b.this)

\* swap and operator= call each other: depth is the number of nested calls of
\* swap the stack still has room for.
RECURSIVE basic_pidl_swap(_, _, _, _)
RECURSIVE basic_pidl_assign(_, _, _, _)
RECURSIVE assign_swap(_, _, _)
RECURSIVE swap_assign_this(_, _, _, _)
RECURSIVE swap_assign_pidl(_, _, _, _)

\* swap that takes pidl's PIDL and gives nothing back.
basic_pidl_swap_one_way(M, this, pidl, depth) ==
    Res(M, [this EXCEPT !.m_pidl = pidl.m_pidl], pidl)

\* swap(basic_pidl& pidl) throw()
basic_pidl_swap(M, this, pidl, depth) ==
    IF m_allocator_eq(this.alloc, pidl.alloc)
    THEN Res(M, [this EXCEPT !.m_pidl = pidl.m_pidl], [pidl EXCEPT !.m_pidl = this.m_pidl])
    ELSE IF depth = 0 THEN Res(Blame(M, "stack_overflow"), this, pidl)
    ELSE swap_assign_this(basic_pidl_copy(M, this.alloc, this.m_pidl), this, pidl, depth - 1)

\* The else branch of swap after basic_pidl temp = *this (t.ret): *this = pidl.
swap_assign_this(t, this, pidl, depth) ==
    IF t.threw \/ t.full THEN Res(NoThrow(t), this, pidl)
    ELSE swap_assign_pidl(basic_pidl_assign(t, this, pidl.m_pidl, depth),
                          Wrapper(this.T, this.alloc, t.ret), pidl, depth)

\* ... after *this = pidl: pidl = temp.
swap_assign_pidl(a, temp, pidl, depth) ==
    IF a.M.threw \/ a.M.full
    THEN Res(NoThrow(basic_pidl_destroy(a.M, temp)), a.this, pidl)
    ELSE swap_end(basic_pidl_assign(a.M, pidl, temp.m_pidl, depth), a.this, temp)

\* operator= that gives up the PIDL it owns when the copy constructor throws.
assign_swap_released(c, this, depth) ==
    IF c.threw \/ c.full
    THEN Res(basic_pidl_destroy(c, this), [this EXCEPT !.m_pidl = NULL], DeadWrapper)
    ELSE assign_end(Res(c, [this EXCEPT !.m_pidl = c.ret], this))

\* operator=(const basic_pidl&) and operator=(const T*): basic_pidl copy(raw) ...
basic_pidl_assign(M, this, raw, depth) ==
    assign_swap(basic_pidl_copy(M, this.alloc, raw), this, depth)

\* ... swap(copy), unless the copy constructor threw.
assign_swap(c, this, depth) ==
    IF c.threw \/ c.full THEN Res(c, this, DeadWrapper)
    ELSE assign_end(basic_pidl_swap(c, this, Wrapper(this.T, this.alloc, c.ret), depth))

\* out() without the deallocate.
basic_pidl_out_leaky(M, this) == Res(M, [this EXCEPT !.m_pidl = NULL], DeadWrapper)

\* out()
basic_pidl_out(M, this) ==
    Res(deallocate(M, this.alloc, this.m_pidl), [this EXCEPT !.m_pidl = NULL], DeadWrapper)

\* get()
basic_pidl_get(this) == this.m_pidl

\* size()
basic_pidl_size(h, this) == size(h, this.m_pidl)

\* empty() that looks at the pointer only.
basic_pidl_empty_null_only(h, this) == this.m_pidl = NULL

\* empty()
basic_pidl_empty(h, this) ==
    (this.m_pidl = NULL) \/ (mkid_cb(h[this.m_pidl].mem, 0) = 0)

\* attach that drops the PIDL it owns without deallocating it.
attach_take_leaky(M, this, raw_pidl) ==
    Res(M, [this EXCEPT !.m_pidl = raw_pidl], DeadWrapper)

\* attach(T* raw_pidl) after its assertion.  Where the assertion is compiled
\* out and the wrapper is given the block it owns, it frees it and is left
\* holding the freed block.
attach_take(M, this, raw_pidl) ==
    Res(IF this.m_pidl = raw_pidl /\ raw_pidl # NULL
        THEN Blame(deallocate(M, this.alloc, this.m_pidl), "dangling")
        ELSE deallocate(M, this.alloc, this.m_pidl),
        [this EXCEPT !.m_pidl = raw_pidl], DeadWrapper)

\* attach(T* raw_pidl)
basic_pidl_attach(M, this, raw_pidl) ==
    attach_take(IF this.m_pidl = raw_pidl THEN [M EXCEPT !.asserted = TRUE] ELSE M,
                this, raw_pidl)

\* operator+ when return pidl copies the local: the return value is
\* constructed (r.ret) unless the copy constructor threw, and ~pidl runs.
plus_copied(r, pidl) ==
    Res(basic_pidl_destroy(r, pidl),
        IF r.threw \/ r.full THEN DeadWrapper ELSE Wrapper(pidl.T, pidl.alloc, r.ret),
        DeadWrapper)

\* return pidl with the local always copied.
plus_return_copied(at, elide) ==
    plus_copied(basic_pidl_copy(at.M, at.this.alloc, at.this.m_pidl), at.this)

\* operator+ after pidl.attach(...): return pidl.  The compiler may construct
\* the local in place of the return value (elide), or copy it with the copy
\* constructor and destroy the local.
plus_return(at, elide) ==
    IF elide THEN Res(at.M, at.this, DeadWrapper)
    ELSE plus_copied(basic_pidl_copy(at.M, at.this.alloc, at.this.m_pidl), at.this)

\* operator+ after combine has returned (c.ret) or thrown: pidl.attach(c.ret),
\* or ~pidl as the exception unwinds.
plus_attach(c, pidl, elide) ==
    IF c.threw \/ c.full THEN Res(basic_pidl_destroy(c, pidl), DeadWrapper, DeadWrapper)
    ELSE plus_return(basic_pidl_attach(c, pidl, c.ret), elide)

\* operator+(lhs_pidl, rhs_pidl)
operator_plus(M, lhs_pidl, rhs_pidl, elide) ==
    plus_attach(combine(M, join_allocator(lhs_pidl.alloc, lhs_pidl.T), lhs_pidl.T,
                        lhs_pidl.m_pidl, rhs_pidl.m_pidl),
                basic_pidl_default(join_type(lhs_pidl.T),
                                   join_allocator(lhs_pidl.alloc, lhs_pidl.T)),
                elide)

\* operator+= after the assignment: the temporary is destroyed at the end of
\* the statement.
plus_eq_end(a, temp) == Res(basic_pidl_destroy(a.M, temp), a.this, DeadWrapper)

\* operator+= with the temporary's PIDL moved into lhs_pidl instead of copied.
plus_eq_assign_moved(j, lhs_pidl) ==
    IF j.M.threw \/ j.M.full THEN Res(j.M, lhs_pidl, DeadWrapper)
    ELSE Res(basic_pidl_destroy(j.M, lhs_pidl), [lhs_pidl EXCEPT !.m_pidl = j.this.m_pidl],
             DeadWrapper)

\* operator+= after lhs_pidl + rhs_pidl has returned the temporary j.this, or
\* thrown: lhs_pidl = temporary.
plus_eq_assign(j, lhs_pidl) ==
    IF j.M.threw \/ j.M.full THEN Res(j.M, lhs_pidl, DeadWrapper)
    ELSE plus_eq_end(basic_pidl_assign(j.M, lhs_pidl, j.this.m_pidl, StackDepth), j.this)

\* operator+=(lhs_pidl, rhs_pidl): lhs_pidl = lhs_pidl + rhs_pidl.
operator_plus_eq(M, lhs_pidl, rhs_pidl, elide) ==
    plus_eq_assign(operator_plus(M, lhs_pidl, rhs_pidl, elide), lhs_pidl)

\* Whether lhs_pidl = lhs_pidl + rhs_pidl compiles: operator+ needs an
\* appendable right operand, and its result must be of lhs_pidl's own type.
plus_eq_compiles(lhs_pidl, rhs_pidl) ==
    /\ traits_is_appendable(rhs_pidl.T)
    /\ join_type(lhs_pidl.T) = lhs_pidl.T

\* ------------------------------------------------------- the wrappers in use

\* The PIDLs callers and producers hand to the wrappers: an empty one and one
\* of a single record.
GivenSeqs == {<< >>, << <<3, 0, 7>> >>}

\* Which allocate call of an operation fails (0: none): an operation makes at
\* most one, two (operator+) or three (operator+=) of them.
FailPoints(n) == 0..n

AllTypes == Variants \X Strategies

\* The wrapper types of the programs that run sequences of operations.
SeqTypes ==
    {<<"ITEMIDLIST_RELATIVE", "newdelete_alloc">>,
     <<"ITEMIDLIST_ABSOLUTE", "cotaskmem_alloc">>}

Init ==
    /\ heap = [x \in Handles |-> UnusedBlock]
    /\ fault = "none"
    /\ pidls = [x \in Wrappers |-> DeadWrapper]
    /\ outSlot = NoWrapper
    /\ last = NoOp
    /\ walk = IdleWalk
    /\ src = << >>
    /\ loose = {}
    /\ room = MaxBlocks
    /\ NoShell

\* The caller is between two calls, and the program has not gone wrong.
Ready == fault = "none" /\ outSlot = NoWrapper /\ last.op = "none"

\* A new object takes the first slot that holds none.
NewSlot(w) ==
    /\ w \in Wrappers
    /\ ~pidls[w].live
    /\ \A v \in Wrappers : ~pidls[v].live => w <= v

\* That slot among the first n, or NoWrapper.
FreeSlot(n) ==
    IF \E w \in 1..n : NewSlot(w) THEN CHOOSE w \in 1..n : NewSlot(w) ELSE NoWrapper

\* The caller has looked at what the last call did and goes on.
Return ==
    /\ last.op # "none"
    /\ outSlot = NoWrapper
    /\ last' = NoOp
    /\ UNCHANGED <<heap, fault, pidls, outSlot, walk, src, loose, room, media, stg, folders>>

Mach(failAt) == Machine(heap, fault, failAt, MaxBytes)

\* The machine is taken over by the state, unless the model's bounds were hit.
Commit(M) ==
    /\ ~M.full
    /\ heap' = M.heap
    /\ fault' = M.fault

\* The state after a constructor of a basic_pidl<T, A> in slot w has ended on
\* machine M: there is no object if it threw.
Constructed(M, w, T, A, rec) ==
    /\ Commit(M)
    /\ pidls' = IF M.threw THEN pidls ELSE [pidls EXCEPT ![w] = Wrapper(T, A, M.ret)]
    /\ last' = Done(rec, M)

\* The state after a function has left r.this in slot w.
Member(r, w, rec) ==
    /\ Commit(r.M)
    /\ pidls' = [pidls EXCEPT ![w] = r.this]
    /\ last' = Done(rec, r.M)

\* The state after pidls[a].swap(pidls[b]).
Swapped(r, a, b, rec) ==
    /\ Commit(r.M)
    /\ pidls' = [pidls EXCEPT ![b] = r.other, ![a] = r.this]
    /\ last' = Done(rec, r.M)

\* The state after a block allocated outside the wrappers has been filled.
Filled(M, bytes, rec) ==
    /\ ~M.full
    /\ heap' = [M.heap EXCEPT ![M.ret].mem = bytes]
    /\ last' = [Done(rec, M) EXCEPT !.ret = M.ret]

\* A caller allocates a PIDL of its own (as ILClone would, or a test); it holds
\* one such PIDL at a time.
ExternalAlloc(strategy, recs) ==
    /\ Ready
    /\ loose = {}
    /\ Filled(allocate(Mach(0), Alloc(strategy, "none"), Len(PidlBytes(recs, 0))),
              PidlBytes(recs, 0), Call("external_alloc", NULL, NULL, NULL))
    /\ loose' = {last'.ret}
    /\ UNCHANGED <<fault, pidls, outSlot, walk, src, room, media, stg, folders>>

\* The caller frees a PIDL it owns, with the strategy that allocated it.
ExternalFree(h) ==
    /\ Ready
    /\ h \in loose
    /\ Commit(deallocate(Mach(0), Alloc(heap[h].kind, "none"), h))
    /\ last' = Call("external_free", h, NULL, NULL)
    /\ loose' = loose \ {h}
    /\ UNCHANGED <<pidls, outSlot, walk, src, room, media, stg, folders>>

\* basic_pidl<T, Alloc> w;
Construct(w, T, strategy) ==
    /\ Ready
    /\ NewSlot(w)
    /\ pidls' = [pidls EXCEPT ![w] = basic_pidl_default(T, Alloc(strategy, T))]
    /\ last' = Call("construct", w, NULL, NULL)
    /\ UNCHANGED <<heap, fault, outSlot, walk, src, loose, room, media, stg, folders>>

\* basic_pidl w(pidls[from]);
ConstructCopy(w, from, failAt) ==
    /\ Ready
    /\ NewSlot(w) /\ pidls[from].live
    /\ Constructed(basic_pidl_copy(Mach(failAt), pidls[from].alloc, pidls[from].m_pidl),
                   w, pidls[from].T, pidls[from].alloc,
                   Call("construct_copy", w, from, NULL))
    /\ UNCHANGED <<outSlot, walk, src, loose, room, media, stg, folders>>

\* basic_pidl<T, Alloc> w(raw_pidl);
ConstructRaw(w, T, strategy, raw_pidl, failAt) ==
    /\ Ready
    /\ NewSlot(w)
    /\ Constructed(basic_pidl_copy(Mach(failAt), Alloc(strategy, T), raw_pidl),
                   w, T, Alloc(strategy, T), Call("construct_raw", w, raw_pidl, NULL))
    /\ UNCHANGED <<outSlot, walk, src, loose, room, media, stg, folders>>

\* The wrapper goes out of scope.
Destroy(w) ==
    /\ Ready
    /\ pidls[w].live
    /\ Commit(basic_pidl_destroy(Mach(0), pidls[w]))
    /\ last' = Call("destroy", w, NULL, pidls[w].m_pidl)
    /\ pidls' = [pidls EXCEPT ![w] = DeadWrapper]
    /\ UNCHANGED <<outSlot, walk, src, loose, room, media, stg, folders>>

\* pidls[w] = pidls[from];
Assign(w, from, failAt) ==
    /\ Ready
    /\ pidls[w].live /\ pidls[from].live
    /\ pidls[w].T = pidls[from].T /\ pidls[w].alloc = pidls[from].alloc
    /\ Member(basic_pidl_assign(Mach(failAt), pidls[w], pidls[from].m_pidl, StackDepth),
              w, Call("assign", w, from, pidls[w].m_pidl))
    /\ UNCHANGED <<outSlot, walk, src, loose, room, media, stg, folders>>

\* pidls[w] = raw_pidl;
AssignRaw(w, raw_pidl, failAt) ==
    /\ Ready
    /\ pidls[w].live
    /\ Member(basic_pidl_assign(Mach(failAt), pidls[w], raw_pidl, StackDepth),
              w, Call("assign_raw", w, raw_pidl, pidls[w].m_pidl))
    /\ UNCHANGED <<outSlot, walk, src, loose, room, media, stg, folders>>

\* pidls[w].out(): the slot is handed to a producer.
Out(w) ==
    /\ Ready
    /\ pidls[w].live
    /\ Member(basic_pidl_out(Mach(0), pidls[w]), w, Call("out", w, NULL, pidls[w].m_pidl))
    /\ outSlot' = w
    /\ UNCHANGED <<walk, src, loose, room, media, stg, folders>>

\* The producer writes a PIDL it allocated, with the wrapper's strategy, into
\* the slot.
ProducerStore(recs) ==
    /\ fault = "none" /\ outSlot # NoWrapper /\ last.op = "out"
    /\ Filled(allocate(Mach(0), pidls[outSlot].alloc, Len(PidlBytes(recs, 0))),
              PidlBytes(recs, 0), Call("producer_store", outSlot, NULL, NULL))
    /\ pidls' = [pidls EXCEPT ![outSlot].m_pidl = last'.ret]
    /\ outSlot' = NoWrapper
    /\ UNCHANGED <<fault, walk, src, loose, room, media, stg, folders>>

\* The producer fails and leaves the slot as it found it.
ProducerLeave ==
    /\ fault = "none" /\ outSlot # NoWrapper /\ last.op = "out"
    /\ outSlot' = NoWrapper
    /\ last' = Call("producer_leave", outSlot, NULL, NULL)
    /\ UNCHANGED <<heap, fault, pidls, walk, src, loose, room, media, stg, folders>>

\* pidls[w].attach(raw_pidl): the caller gives up a PIDL it owns (or NULL), or,
\* against the assertion, passes the wrapper's own PIDL.
Attach(w, raw_pidl) ==
    /\ Ready
    /\ pidls[w].live
    /\ \/ raw_pidl = NULL
       \/ raw_pidl \in loose /\ heap[raw_pidl].kind = pidls[w].alloc.strategy
       \/ raw_pidl = pidls[w].m_pidl
    /\ Member(basic_pidl_attach(Mach(0), pidls[w], raw_pidl),
              w, Call("attach", w, raw_pidl, pidls[w].m_pidl))
    /\ loose' = loose \ {raw_pidl}
    /\ UNCHANGED <<outSlot, walk, src, room, media, stg, folders>>

\* The caller reads pidls[w].get(), pidls[w].size() and pidls[w].empty().
Inspect(w) ==
    /\ Ready
    /\ pidls[w].live
    /\ last' = [Call("inspect", w, NULL, pidls[w].m_pidl)
                   EXCEPT !.ret = basic_pidl_get(pidls[w]),
                          !.size = basic_pidl_size(heap, pidls[w]),
                          !.empty = basic_pidl_empty(heap, pidls[w])]
    /\ UNCHANGED <<heap, fault, pidls, outSlot, walk, src, loose, room, media, stg, folders>>

\* pidls[a].swap(pidls[b]);
Swap(a, b, failAt) ==
    /\ Ready
    /\ pidls[a].live /\ pidls[b].live
    /\ pidls[a].T = pidls[b].T /\ pidls[a].alloc = pidls[b].alloc
    /\ Swapped(basic_pidl_swap(Mach(failAt), pidls[a], pidls[b], StackDepth),
               a, b, Call("swap", a, b, pidls[a].m_pidl))
    /\ UNCHANGED <<outSlot, walk, src, loose, room, media, stg, folders>>

\* basic_pidl w = pidls[l] + pidls[r];  It compiles only for an appendable r.
Join(l, r, w, elide, failAt) ==
    /\ Ready
    /\ pidls[l].live /\ pidls[r].live /\ NewSlot(w)
    /\ IF ~traits_is_appendable(pidls[r].T)
       THEN /\ last' = [Call("join", l, r, NULL) EXCEPT !.status = "rejected"]
            /\ UNCHANGED <<heap, fault, pidls, room, media, stg, folders>>
       ELSE Member(operator_plus(Mach(failAt), pidls[l], pidls[r], elide), w,
                   [Call("join", l, r, NULL)
                       EXCEPT !.ret = w, !.rtype = join_type(pidls[l].T), !.elided = elide])
    /\ UNCHANGED <<outSlot, walk, src, loose, room, media, stg, folders>>

\* pidls[l] += pidls[r];
AppendJoin(l, r, elide, failAt) ==
    /\ Ready
    /\ pidls[l].live /\ pidls[r].live
    /\ IF ~plus_eq_compiles(pidls[l], pidls[r])
       THEN /\ last' = [Call("append_join", l, r, NULL) EXCEPT !.status = "rejected"]
            /\ UNCHANGED <<heap, fault, pidls, room, media, stg, folders>>
       ELSE Member(operator_plus_eq(Mach(failAt), pidls[l], pidls[r], elide), l,
                   [Call("append_join", l, r, pidls[l].m_pidl)
                       EXCEPT !.ret = l, !.rtype = join_type(pidls[l].T), !.elided = elide])
    /\ UNCHANGED <<outSlot, walk, src, loose, room, media, stg, folders>>

RawArgs == {NULL} \cup LiveHandles(heap)

\* A program that runs any sequence of operations on at most MaxLive wrappers
\* of the types SeqTypes.
Next ==
    \/ \E k \in Strategies, recs \in GivenSeqs : ExternalAlloc(k, recs)
    \/ \E h \in Handles : ExternalFree(h)
    \/ \E t \in SeqTypes : Construct(FreeSlot(MaxLive), t[1], t[2])
    \/ \E t \in SeqTypes, p \in RawArgs, f \in FailPoints(1) :
          ConstructRaw(FreeSlot(MaxLive), t[1], t[2], p, f)
    \/ \E from \in Wrappers, f \in FailPoints(1) : ConstructCopy(FreeSlot(MaxLive), from, f)
    \/ \E a \in Wrappers : Destroy(a)
    \/ \E a \in Wrappers, from \in Wrappers, f \in FailPoints(1) : Assign(a, from, f)
    \/ \E a \in Wrappers, p \in RawArgs, f \in FailPoints(1) : AssignRaw(a, p, f)
    \/ \E a \in Wrappers : Out(a)
    \/ \E recs \in GivenSeqs : ProducerStore(recs)
    \/ ProducerLeave
    \/ \E a \in Wrappers, p \in RawArgs : Attach(a, p)
    \/ \E a \in Wrappers : Inspect(a)
    \/ \E a \in Wrappers, b \in Wrappers, f \in FailPoints(1) : Swap(a, b, f)
    \/ \E l \in Wrappers, r \in Wrappers, e \in BOOLEAN, f \in FailPoints(2) :
          Join(l, r, FreeSlot(MaxLive), e, f)
    \/ \E l \in Wrappers, r \in Wrappers, e \in BOOLEAN, f \in FailPoints(3) :
          AppendJoin(l, r, e, f)
    \/ Return

Spec == Init /\ [][Next]_vars

\* ------------------------------------------- one operation on given wrappers

OperandSeqs == {recs \in ItemSeqs : Len(recs) <= MaxOperandItems}

\* What a given wrapper owns: nothing, or a PIDL of the given records.
OperandContents == {<<"null", << >> >>} \cup {<<"pidl", recs>> : recs \in OperandSeqs}

GivenWrapper(t, c, h) ==
    Wrapper(t[1], Alloc(t[2], t[1]), IF c[1] = "null" THEN NULL ELSE h)

\* Two wrappers of any two types, each owning nothing or a well-formed PIDL
\* allocated by its own strategy, and a caller that may own one PIDL.
InitOnce ==
    /\ \E t1 \in AllTypes, t2 \in AllTypes, c1 \in OperandContents, c2 \in OperandContents,
          k \in Strategies \cup {"none"} :
          /\ pidls = [x \in Wrappers |->
                         IF x = 1 THEN GivenWrapper(t1, c1, 1)
                         ELSE IF x = 2 THEN GivenWrapper(t2, c2, 2)
                         ELSE DeadWrapper]
          /\ heap = [x \in Handles |->
                        IF x = 1 /\ c1[1] = "pidl" THEN GivenBlock(t1[2], c1[2], 0)
                        ELSE IF x = 2 /\ c2[1] = "pidl" THEN GivenBlock(t2[2], c2[2], 0)
                        ELSE IF x = 3 /\ k # "none" THEN GivenBlock(k, << <<3, 0, 7>> >>, 0)
                        ELSE UnusedBlock]
          /\ src = [x \in {1, 2, 3} |->
                       IF x = 1 THEN c1[2] ELSE IF x = 2 THEN c2[2] ELSE << <<3, 0, 7>> >>]
          /\ loose = IF k = "none" THEN {} ELSE {3}
    /\ fault = "none"
    /\ outSlot = NoWrapper
    /\ last = NoOp
    /\ walk = IdleWalk
    /\ room = MaxHandles
    /\ NoShell

\* A program that applies one operation to the given wrappers.
NextOnce ==
    \/ \E t \in AllTypes, p \in RawArgs, f \in FailPoints(1) :
          ConstructRaw(FreeSlot(NumWrappers), t[1], t[2], p, f)
    \/ \E from \in Wrappers, f \in FailPoints(1) : ConstructCopy(FreeSlot(NumWrappers), from, f)
    \/ \E a \in Wrappers : Destroy(a)
    \/ \E a \in Wrappers, from \in Wrappers, f \in FailPoints(1) : Assign(a, from, f)
    \/ \E a \in Wrappers, p \in RawArgs, f \in FailPoints(1) : AssignRaw(a, p, f)
    \/ \E a \in Wrappers : Out(a)
    \/ \E recs \in GivenSeqs : ProducerStore(recs)
    \/ ProducerLeave
    \/ \E a \in Wrappers, p \in RawArgs : Attach(a, p)
    \/ \E a \in Wrappers : Inspect(a)
    \/ \E a \in Wrappers, b \in Wrappers, f \in FailPoints(1) : Swap(a, b, f)
    \/ \E l \in Wrappers, r \in Wrappers, e \in BOOLEAN, f \in FailPoints(2) :
          Join(l, r, FreeSlot(NumWrappers), e, f)
    \/ \E l \in Wrappers, r \in Wrappers, e \in BOOLEAN, f \in FailPoints(3) :
          AppendJoin(l, r, e, f)

SpecOnce == InitOnce /\ [][NextOnce]_vars

\* ------------------------- swap and operator= with an Alloc that is unequal

\* Two wrappers of one type basic_pidl<T, Alloc>, Alloc comparing unequal, each
\* owning nothing or a well-formed PIDL.
InitFallback ==
    /\ \E T \in Variants, c1 \in OperandContents, c2 \in OperandContents :
          /\ pidls = [x \in Wrappers |->
                         IF x = 1 THEN GivenWrapper(<<T, UnequalAlloc>>, c1, 1)
                         ELSE IF x = 2 THEN GivenWrapper(<<T, UnequalAlloc>>, c2, 2)
                         ELSE DeadWrapper]
          /\ heap = [x \in Handles |->
                        IF x = 1 /\ c1[1] = "pidl" THEN GivenBlock(UnequalAlloc, c1[2], 0)
                        ELSE IF x = 2 /\ c2[1] = "pidl" THEN GivenBlock(UnequalAlloc, c2[2], 0)
                        ELSE UnusedBlock]
          /\ src = [x \in {1, 2} |-> IF x = 1 THEN c1[2] ELSE c2[2]]
    /\ loose = {}
    /\ fault = "none"
    /\ outSlot = NoWrapper
    /\ last = NoOp
    /\ walk = IdleWalk
    /\ room = MaxHandles
    /\ NoShell

\* A program that swaps or assigns the two wrappers once.
NextFallback ==
    \/ \E a \in Wrappers, b \in Wrappers, f \in FailPoints(2) : Swap(a, b, f)
    \/ \E a \in Wrappers, from \in Wrappers, f \in FailPoints(2) : Assign(a, from, f)

SpecFallback == InitFallback /\ [][NextFallback]_vars


\* ------------------------------------------------------------ StorageMedium

\* The types of medium a producer stores: TYMED_HGLOBAL and TYMED_ISTREAM.
Tymeds == {1, 4}

\* StorageMedium(): ZeroMemory(&m_medium, sizeof(m_medium))
StorageMedium_default == [live |-> TRUE, tymed |-> 0, res |-> 0]

\* empty()
StorageMedium_empty(m) == m.tymed = NULL

\* The value the C++ condition takes of a string literal: a pointer that is
\* not null.
StringLiteral == TRUE

\* The condition of the assert of out()
out_assertion(m) == StorageMedium_empty(m) \/ StringLiteral

\* The condition of the assert of get()
get_assertion(m) == ~StorageMedium_empty(m) \/ StringLiteral

\* The first resource no medium refers to, or NULL.
FreshResource(S) ==
    IF \E r \in Resources : S[r] = 0
    THEN CHOOSE r \in Resources : S[r] = 0 /\ \A q \in Resources : S[q] = 0 => r <= q
    ELSE NULL

\* ::ReleaseStgMedium(&m_medium)
ReleaseStgMedium(S, m) ==
    IF m.tymed = 0 THEN S ELSE [S EXCEPT ![m.res] = @ - 1]

\* The medium ::CopyStgMedium(&from, &m_medium) stores: global memory is
\* duplicated, a stream is shared.
CopiedMedium(S, from) ==
    IF from.tymed = 1 THEN [from EXCEPT !.res = FreshResource(S)] ELSE from

\* The resources after an object has come to hold medium m.
Holding(S, m) == IF m.tymed = 0 THEN S ELSE [S EXCEPT ![m.res] = @ + 1]

\* StorageMedium x;
MediumConstruct(w) ==
    /\ fault = "none"
    /\ ~media[w].live
    /\ media' = [media EXCEPT ![w] = StorageMedium_default]
    /\ last' = Call("medium", w, NULL, NULL)
    /\ UNCHANGED <<heap, fault, pidls, outSlot, walk, src, loose, room, stg, folders>>

\* StorageMedium x(media[from]);  CopyStgMedium fails (hr is not S_OK) and the
\* constructor throws com_exception, or x holds the copy.
MediumCopy(w, from, hr) ==
    /\ fault = "none"
    /\ ~media[w].live /\ media[from].live
    /\ CopiedMedium(stg, media[from]).tymed # 0 => CopiedMedium(stg, media[from]).res # NULL
    /\ media[from].tymed # 0 => stg[media[from].res] < MaxRefs
    /\ IF hr = "S_OK"
       THEN /\ media' = [media EXCEPT ![w] = CopiedMedium(stg, media[from])]
            /\ stg' = Holding(stg, CopiedMedium(stg, media[from]))
       ELSE UNCHANGED <<media, stg>>
    /\ last' = [Call("medium_copy", w, from, NULL)
                   EXCEPT !.status = IF hr = "S_OK" THEN "ok" ELSE "com_exception"]
    /\ UNCHANGED <<heap, fault, pidls, outSlot, walk, src, loose, room, folders>>

\* ~StorageMedium()
MediumDestroy(w) ==
    /\ fault = "none"
    /\ media[w].live
    /\ stg' = ReleaseStgMedium(stg, media[w])
    /\ media' = [media EXCEPT ![w] = DeadMedium]
    /\ last' = Call("medium_destroy", w, NULL, NULL)
    /\ UNCHANGED <<heap, fault, pidls, outSlot, walk, src, loose, room, folders>>

\* media[w].out(): the assert, and the address of m_medium returned.
MediumOut(w) ==
    /\ fault = "none"
    /\ media[w].live
    /\ last' = [Call("medium_out", w, NULL, NULL)
                   EXCEPT !.asserted = ~out_assertion(media[w]), !.ret = media[w].tymed]
    /\ UNCHANGED <<heap, fault, pidls, outSlot, walk, src, loose, room, media, stg, folders>>

\* The function that was passed media[w].out() stores a medium of type t at
\* that address; what was there is overwritten, not released.
MediumStore(t) ==
    /\ fault = "none"
    /\ last.op = "medium_out"
    /\ FreshResource(stg) # NULL
    /\ media' = [media EXCEPT ![last.a] = [live |-> TRUE, tymed |-> t,
                                           res |-> FreshResource(stg)]]
    /\ stg' = [stg EXCEPT ![FreshResource(stg)] = 1]
    /\ last' = Call("medium_store", last.a, NULL, NULL)
    /\ UNCHANGED <<heap, fault, pidls, outSlot, walk, src, loose, room, folders>>

\* media[w].get(): the assert, and m_medium returned.
MediumGet(w) ==
    /\ fault = "none"
    /\ media[w].live
    /\ last' = [Call("medium_get", w, NULL, NULL)
                   EXCEPT !.asserted = ~get_assertion(media[w]), !.ret = media[w].tymed]
    /\ UNCHANGED <<heap, fault, pidls, outSlot, walk, src, loose, room, media, stg, folders>>

\* ------------------------------------------------ CSwishFolder::BindToObject

\* What BindToObject leaves: the objects and its HRESULT.
Bound(F, hr) == [folders |-> F, hr |-> hr]

\* CComObject<CSwishFolder>::CreateInstance(&pSwishFolder): a new object that
\* nothing refers to yet.
CreateInstance(F, f) == [F EXCEPT ![f] = [st |-> "alive", refs |-> 0, held |-> FALSE]]

\* pSwishFolder->AddRef()
AddRef(F, f) == [F EXCEPT ![f].refs = @ + 1]

\* pSwishFolder->Release(): the object is destroyed with its last reference.
Release(F, f) ==
    IF F[f].refs = 1 THEN [F EXCEPT ![f].refs = 0, ![f].st = "destroyed"]
    ELSE [F EXCEPT ![f].refs = @ - 1]

\* pSwishFolder->QueryInterface(riid, ppvOut): an interface the object has is
\* stored in *ppvOut with a reference of its own.
QueryInterface(F, f, hr) == IF hr = "S_OK" THEN AddRef(F, f) ELSE F

\* BindToObject after _init has returned hr.
bind_inited(F, f, hr) ==
    IF hr # "S_OK" THEN Bound(Release(F, f), hr) ELSE Bound(F, hr)

\* BindToObject after QueryInterface has returned hrQuery.
bind_queried(F, f, hrQuery, hrInit) ==
    IF hrQuery # "S_OK" THEN Bound(Release(F, f), "E_NOINTERFACE")
    ELSE bind_inited(F, f, hrInit)

\* BindToObject(pidl, pbcReserved, riid, ppvOut), the new object in slot f:
\* hrCreate, hrQuery and hrInit are what CreateInstance, QueryInterface and
\* _init return.
BindToObject(F, f, hrCreate, hrQuery, hrInit) ==
    IF hrCreate # "S_OK" THEN Bound(F, hrCreate)
    ELSE bind_queried(QueryInterface(AddRef(CreateInstance(F, f), f), f, hrQuery),
                      f, hrQuery, hrInit)

\* The state after BindToObject has returned b: the caller holds the interface
\* pointer it was returned when the call succeeded.
BoundTo(b, f) ==
    /\ folders' = IF b.hr = "S_OK" THEN [b.folders EXCEPT ![f].held = TRUE] ELSE b.folders
    /\ last' = [Call("bind", f, NULL, NULL) EXCEPT !.status = b.hr, !.ret = f]

HResults == {"S_OK", "E_FAIL"}

\* The first slot that has held no object.
NewFolder(f) ==
    /\ f \in Folders
    /\ folders[f].st = "none"
    /\ \A g \in Folders : folders[g].st = "none" => f <= g

\* A call of BindToObject by the shell.
Bind(f, hrCreate, hrQuery, hrInit) ==
    /\ fault = "none"
    /\ NewFolder(f)
    /\ BoundTo(BindToObject(folders, f, hrCreate, hrQuery, hrInit), f)
    /\ UNCHANGED <<heap, fault, pidls, outSlot, walk, src, loose, room, media, stg>>

\* The caller releases the interface pointer a successful call returned.
ReleaseInterface(f) ==
    /\ fault = "none"
    /\ folders[f].held
    /\ folders' = [Release(folders, f) EXCEPT ![f].held = FALSE]
    /\ last' = Call("release_interface", f, NULL, NULL)
    /\ UNCHANGED <<heap, fault, pidls, outSlot, walk, src, loose, room, media, stg>>

\* --------------------------------- a program that uses the shell-side objects

InitShell ==
    /\ heap = [x \in Handles |-> UnusedBlock]
    /\ src = [x \in {1, 2} |-> << >>]
    /\ pidls = [x \in Wrappers |-> DeadWrapper]
    /\ loose = {}
    /\ fault = "none"
    /\ outSlot = NoWrapper
    /\ last = NoOp
    /\ walk = IdleWalk
    /\ room = MaxHandles
    /\ NoShell

NextShell ==
    \/ \E w \in Mediums : MediumConstruct(w)
    \/ \E w \in Mediums, from \in Mediums, hr \in HResults : MediumCopy(w, from, hr)
    \/ \E w \in Mediums : MediumDestroy(w)
    \/ \E w \in Mediums : MediumOut(w)
    \/ \E t \in Tymeds : MediumStore(t)
    \/ \E w \in Mediums : MediumGet(w)
    \/ \E f \in Folders, hc \in HResults, hq \in HResults, hi \in HResults : Bind(f, hc, hq, hi)
    \/ \E f \in Folders : ReleaseInterface(f)

SpecShell == InitShell /\ [][NextShell]_vars


\* ================================================================== claims

\* The records of a well-formed PIDL, read off its bytes up to the terminator.
RECURSIVE RecordsOf(_)
RecordsOf(bytes) ==
    IF bytes[1] + 256 * bytes[2] = 0 THEN << >>
    ELSE LET cb == bytes[1] + 256 * bytes[2]
         IN <<SubSeq(bytes, 1, cb)>> \o RecordsOf(SubSeq(bytes, cb + 1, Len(bytes)))

RECURSIVE SumOfLengths(_)
SumOfLengths(recs) ==
    IF recs = << >> THEN 0 ELSE Len(Head(recs)) + SumOfLengths(Tail(recs))

CombinedOk == last.op = "combine" /\ last.status = "ok"

\* C1: for non-null, non-empty PIDLs A and B (B of an appendable type),
\* combine(A, B) is a new block holding A's records in order, then B's records
\* in order, then exactly one terminator, and nothing else; so its size is
\* size(A) + size(B) - 2.
C1_CombineConcatenates ==
    (/\ CombinedOk
     /\ last.a # NULL /\ last.b # NULL
     /\ src[last.a] # << >> /\ src[last.b] # << >>)
    => /\ last.ret \notin {NULL, last.a, last.b}
       /\ heap[last.ret].st = "live"
       /\ RecordsOf(heap[last.ret].mem) = src[last.a] \o src[last.b]
       /\ heap[last.ret].mem = Flatten(src[last.a] \o src[last.b]) \o <<0, 0>>
       /\ size(heap, last.ret) = size(heap, last.a) + size(heap, last.b) - 2

C1_Witness ==
    /\ CombinedOk
    /\ last.a = 1 /\ last.b = 2
    /\ Len(src[1]) = 2 /\ Len(src[2]) = 2
    /\ src[1] # src[2]
    /\ Len(heap[last.ret].mem) = size(heap, 1) + size(heap, 2) - 2

\* First n bytes of the block of a raw PIDL.
Prefix(h, pidl, n) == SubSeq(h[pidl].mem, 1, n)

IsEmptyOrNull(p) == p = NULL \/ src[p] = << >>

\* The bytes of what clone<Alloc>(x) returns, called in place of the combine
\* that returned last.ret.
CloneBytes(x) ==
    LET c == clone(Machine([heap EXCEPT ![last.ret] = UnusedBlock], fault, 0, RawLimit),
                   Alloc("newdelete_alloc", "none"), x)
    IN c.heap[c.ret].mem

\* C2: the empty list is a two-sided identity of combine.  combine(NULL, NULL)
\* is NULL and allocates nothing; for a non-null X and an E that is NULL or only
\* a terminator, combine(E, X) and combine(X, E) are newly allocated blocks
\* equal to clone(X): the first size(X) bytes of X.
C2_CombineIdentity ==
    CombinedOk =>
      /\ (last.a = NULL /\ last.b = NULL) => (last.ret = NULL /\ last.attempts = 0)
      /\ \A x \in {last.a, last.b} \ {NULL} :
            LET e == IF x = last.a THEN last.b ELSE last.a
            IN IsEmptyOrNull(e)
               => /\ last.ret \notin {NULL, last.a, last.b}
                  /\ last.attempts = 1
                  /\ heap[last.ret].st = "live"
                  /\ heap[last.ret].mem = Prefix(heap, x, size(heap, x))
                  /\ heap[last.ret].mem = CloneBytes(x)

C2_Witness ==
    /\ CombinedOk
    /\ last.a = 1 /\ last.b = 2
    /\ src[2] = << >> /\ Len(src[1]) = 2
    /\ Len(heap[1].mem) > size(heap, 1)
    /\ heap[last.ret].mem = Prefix(heap, 1, size(heap, 1))

\* C3: size of NULL is 0 and looks at no memory.  On a well-formed PIDL the
\* walk of size never goes or reads beyond the terminator, runs its loop body
\* once per record, stops at the terminator and returns the sum of the
\* records' length fields plus 2.
C3_SizeWalk ==
    /\ (walk.pc = "done" /\ walk.pidl = NULL) => (walk.s = 0 /\ walk.reads = 0)
    /\ (walk.pc \in {"loop", "done"} /\ walk.pidl # NULL) =>
          LET recs == src[walk.pidl]
              total == SumOfLengths(recs)
          IN /\ walk.off <= total
             /\ walk.reads <= total + 2
             /\ walk.steps <= Len(recs)
             /\ walk.pc = "done" =>
                   /\ walk.off = total
                   /\ walk.reads = total + 2
                   /\ walk.steps = Len(recs)
                   /\ walk.s = total + 2
                   /\ mkid_cb(heap[walk.pidl].mem, walk.off) = 0
                   /\ size(heap, walk.pidl) = walk.s
    /\ size(heap, NULL) = 0

C3_Witness ==
    /\ walk.pc = "done"
    /\ walk.pidl = 1
    /\ Len(src[1]) = 2
    /\ Len(heap[1].mem) > walk.s
    /\ walk.s = SumOfLengths(src[1]) + 2

\* The wrappers that own a PIDL, and the PIDLs that are owned.
Owners == {w \in Wrappers : pidls[w].live /\ pidls[w].m_pidl # NULL}

Owned == {pidls[w].m_pidl : w \in Owners}

\* C4: as long as no caller has attached to a wrapper the PIDL it already
\* owns, no block is owned by two wrappers at once, and what a wrapper owns is
\* an allocated block of its own strategy that the caller does not own.
C4_UniqueOwnership ==
    fault # "dangling" =>
      /\ \A a \in Owners, b \in Owners : a # b => pidls[a].m_pidl # pidls[b].m_pidl
      /\ \A a \in Owners :
            /\ heap[pidls[a].m_pidl].st = "live"
            /\ heap[pidls[a].m_pidl].kind = pidls[a].alloc.strategy
            /\ pidls[a].m_pidl \notin loose

C4_Witness ==
    /\ last.op = "join" /\ last.status = "ok"
    /\ last.a # last.b
    /\ Owners = Wrappers
    /\ Cardinality(Owned) = NumWrappers
    /\ fault = "none"

\* C5: no block is freed twice or with the wrong strategy, and none is leaked:
\* the allocated blocks are exactly those a wrapper or the caller owns, so once
\* every wrapper is destroyed only the caller's blocks are left.  out() and the
\* destructor free the PIDL the wrapper owned, and out() leaves it NULL.
C5_FreedExactlyOnce ==
    fault # "dangling" =>
      /\ fault = "none"
      /\ LiveHandles(heap) = Owned \cup loose
      /\ (\A w \in Wrappers : ~pidls[w].live) => LiveHandles(heap) = loose
      /\ (last.op \in {"out", "destroy"} /\ last.prev # NULL)
            => heap[last.prev].st = "unused"
      /\ last.op = "out" => pidls[last.a].m_pidl = NULL

C5_Witness ==
    /\ last.op = "out"
    /\ last.prev # NULL
    /\ heap[last.prev].st = "unused"
    /\ pidls[last.a].live /\ pidls[last.a].m_pidl = NULL
    /\ Owned # {}
    /\ fault = "none"

\* A call of operator= (either overload), + or += that ended in std::bad_alloc.
FailedCall(l) ==
    /\ l.status = "bad_alloc"
    /\ l.op \in {"assign", "assign_raw", "join", "append_join"}

\* C6: when an allocation fails in operator=, + or +=, std::bad_alloc reaches
\* the caller, no allocate call is made after the one that failed, every
\* wrapper owns the block it owned before with the bytes it had, and the blocks
\* allocated are those that were allocated before the call.
C6_StrongGuarantee ==
    [][FailedCall(last') =>
          /\ last'.failed >= 1
          /\ last'.attempts = last'.failed
          /\ pidls' = pidls
          /\ heap' = heap
          /\ fault' = fault]_vars

C6_Witness ==
    /\ FailedCall(last)
    /\ last.op = "append_join"
    /\ last.failed = 2
    /\ last.a # last.b
    /\ pidls[last.a].m_pidl # NULL /\ pidls[last.b].m_pidl # NULL

\* C7: lhs + rhs with an rhs of variant Absolute is rejected whatever lhs is
\* and whatever rhs holds: no allocate call is made and nothing changes.  With
\* an rhs of variant Child or Relative it is never rejected.
C7_AbsoluteRhsRejected ==
    [][last'.op = "join" =>
          IF pidls[last'.b].T = "ITEMIDLIST_ABSOLUTE"
          THEN /\ last'.status = "rejected"
               /\ last'.attempts = 0
               /\ pidls' = pidls
               /\ heap' = heap
               /\ fault' = fault
          ELSE last'.status # "rejected"]_vars

C7_Witness ==
    /\ last.op = "join" /\ last.status = "rejected"
    /\ pidls[last.b].T = "ITEMIDLIST_ABSOLUTE"
    /\ pidls[last.a].T = "ITEMID_CHILD"
    /\ pidls[last.a].m_pidl # NULL /\ pidls[last.b].m_pidl # NULL

JoinedOk == last.op = "join" /\ last.status = "ok"

\* The variant of lhs + rhs, as the spec states it.
MappedVariant(T) ==
    CASE T = "ITEMID_CHILD" -> "ITEMIDLIST_RELATIVE"
      [] T = "ITEMIDLIST_RELATIVE" -> "ITEMIDLIST_RELATIVE"
      [] T = "ITEMIDLIST_ABSOLUTE" -> "ITEMIDLIST_ABSOLUTE"

SomeOperand == pidls[last.a].m_pidl # NULL \/ pidls[last.b].m_pidl # NULL

\* The variant and the strategy of the result of lhs + rhs come from lhs alone.
JoinTyped ==
    /\ pidls[last.ret].T = MappedVariant(pidls[last.a].T)
    /\ pidls[last.ret].alloc.strategy = pidls[last.a].alloc.strategy
    /\ pidls[last.ret].alloc.elem = pidls[last.ret].T
    /\ pidls[last.ret].m_pidl # NULL =>
          /\ heap[pidls[last.ret].m_pidl].st = "live"
          /\ heap[pidls[last.ret].m_pidl].kind = pidls[last.a].alloc.strategy

\* C8 as stated: ... and lhs + rhs makes exactly one allocation when an operand
\* is not NULL.
C8_OneAllocation ==
    JoinedOk =>
      /\ JoinTyped
      /\ SomeOperand => (pidls[last.ret].m_pidl # NULL /\ last.attempts = 1)

\* C8: the variant of lhs + rhs is the one lhs maps to (Child and Relative to
\* Relative, Absolute to Absolute), whatever rhs is; the result is allocated
\* with lhs's strategy.  When an operand is not NULL, lhs + rhs makes one
\* allocation if the copy of the returned wrapper is elided, and two if it is
\* not: the second is the copy constructor's.
C8_JoinResult ==
    JoinedOk =>
      /\ JoinTyped
      /\ SomeOperand =>
            /\ pidls[last.ret].m_pidl # NULL
            /\ last.attempts = IF last.elided THEN 1 ELSE 2
      /\ ~SomeOperand => (pidls[last.ret].m_pidl = NULL /\ last.attempts = 0)

C8_Witness ==
    /\ JoinedOk
    /\ pidls[last.a].T = "ITEMID_CHILD" /\ pidls[last.a].alloc.strategy = "newdelete_alloc"
    /\ pidls[last.b].T = "ITEMIDLIST_RELATIVE"
    /\ pidls[last.b].alloc.strategy = "cotaskmem_alloc"
    /\ pidls[last.a].m_pidl # NULL /\ pidls[last.b].m_pidl # NULL
    /\ ~last.elided /\ last.attempts = 2
    /\ pidls[last.ret].T = "ITEMIDLIST_RELATIVE"
    /\ heap[pidls[last.ret].m_pidl].kind = "newdelete_alloc"

\* C9 as stated: whatever the variant of lhs, lhs + rhs with an rhs of variant
\* Child is of variant Relative.
C9_ChildRhsRelative ==
    (JoinedOk /\ pidls[last.b].T = "ITEMID_CHILD")
    => pidls[last.ret].T = "ITEMIDLIST_RELATIVE"

\* C9: lhs + rhs with an rhs of variant Child is of variant Relative when lhs
\* is Child or Relative, and of variant Absolute when lhs is Absolute.
C9_ChildRhsVariant ==
    (JoinedOk /\ pidls[last.b].T = "ITEMID_CHILD")
    => pidls[last.ret].T = IF pidls[last.a].T = "ITEMIDLIST_ABSOLUTE"
                           THEN "ITEMIDLIST_ABSOLUTE"
                           ELSE "ITEMIDLIST_RELATIVE"

C9_Witness ==
    /\ JoinedOk
    /\ pidls[last.b].T = "ITEMID_CHILD"
    /\ pidls[last.a].T = "ITEMIDLIST_ABSOLUTE"
    /\ pidls[last.a].m_pidl # NULL /\ pidls[last.b].m_pidl # NULL
    /\ pidls[last.ret].T = "ITEMIDLIST_ABSOLUTE"
    /\ pidls[last.ret].m_pidl # NULL

AppendedOk(l) == l.op = "append_join" /\ l.status = "ok"

\* What l.a + l.b returns, called in place of the += that l records.
JoinOf(l) == operator_plus(Mach(0), pidls[l.a], pidls[l.b], l.elided)

\* lhs ends with the content of lhs + rhs, and an rhs that is another object
\* is as it was.
AppendedContent(j) ==
    /\ BytesOf(heap', pidls'[last'.a].m_pidl) = BytesOf(j.M.heap, j.this.m_pidl)
    /\ last'.a # last'.b =>
          /\ pidls'[last'.b] = pidls[last'.b]
          /\ BytesOf(heap', pidls[last'.b].m_pidl) = BytesOf(heap, pidls[last'.b].m_pidl)

\* C10 as stated: lhs += rhs makes as many allocate calls as lhs + rhs.
C10_SameAllocations ==
    [][AppendedOk(last') =>
          /\ last'.attempts = JoinOf(last').M.attempts
          /\ AppendedContent(JoinOf(last'))]_vars

\* C10: lhs += rhs makes the allocate calls of lhs + rhs and, unless the result
\* of lhs + rhs is NULL, one more: operator= copies the temporary.  lhs ends
\* with the content of lhs + rhs; an rhs that is not lhs itself is unchanged.
C10_AppendJoin ==
    [][AppendedOk(last') =>
          /\ last'.attempts = JoinOf(last').M.attempts
                              + (IF JoinOf(last').this.m_pidl # NULL THEN 1 ELSE 0)
          /\ AppendedContent(JoinOf(last'))]_vars

C10_Witness ==
    /\ AppendedOk(last)
    /\ last.a # last.b
    /\ pidls[last.b].m_pidl # NULL
    /\ last.prev # NULL
    /\ last.elided /\ last.attempts = 2
    /\ Len(heap[pidls[last.a].m_pidl].mem) = 8
    /\ Len(heap[pidls[last.b].m_pidl].mem) = 5


\* swap called again on the two wrappers the swap recorded in last' was called
\* on, in the state it left.
SwapAgain ==
    basic_pidl_swap(Machine(heap', fault', 0, MaxBytes), pidls'[last'.a], pidls'[last'.b],
                    StackDepth)

C12_SwapExchangesHandles ==
    [][(last'.op = "swap" /\ alloc_eq(pidls[last'.a].alloc, pidls[last'.b].alloc)) =>
          /\ \A k \in Strategies, T \in Variants, U \in Variants :
                alloc_eq(Alloc(k, T), Alloc(k, U))
          /\ last'.status = "ok" /\ last'.attempts = 0
          /\ fault' = "none"
          /\ heap' = heap
          /\ pidls'[last'.a] = [pidls[last'.a] EXCEPT !.m_pidl = pidls[last'.b].m_pidl]
          /\ pidls'[last'.b] = [pidls[last'.b] EXCEPT !.m_pidl = pidls[last'.a].m_pidl]
          /\ \A w \in Wrappers \ {last'.a, last'.b} : pidls'[w] = pidls[w]]_vars

C12_Witness ==
    /\ last.op = "swap" /\ last.status = "ok"
    /\ last.a = 1 /\ last.b = 2
    /\ pidls[1].m_pidl = 2 /\ pidls[2].m_pidl = 1
    /\ heap[1].mem # heap[2].mem
    /\ heap[1].st = "live" /\ heap[2].st = "live"


\* C13: attach(raw_pidl) on a wrapper whose m_pidl is another block, or NULL,
\* calls deallocate once on the block it owned, which is freed by it and no
\* other block is, calls allocate never, and leaves m_pidl = raw_pidl; the
\* assertion of attach fails exactly when raw_pidl is the wrapper's m_pidl.
C13_AttachAdopts ==
    [][(last'.op = "attach") =>
          /\ last'.attempts = 0
          /\ last'.asserted <=> (last'.b = last'.prev)
          /\ (last'.b # last'.prev) =>
                /\ fault' = "none" /\ last'.status = "ok"
                /\ pidls'[last'.a] = [pidls[last'.a] EXCEPT !.m_pidl = last'.b]
                /\ \A w \in Wrappers \ {last'.a} : pidls'[w] = pidls[w]
                /\ (last'.prev # NULL) => heap[last'.prev].st = "live"
                /\ heap' = IF last'.prev = NULL THEN heap
                           ELSE [heap EXCEPT ![last'.prev] = UnusedBlock]]_vars

C13_Witness ==
    /\ last.op = "attach" /\ last.status = "ok" /\ ~last.asserted
    /\ last.prev # NULL /\ last.b # NULL /\ last.b # last.prev
    /\ pidls[last.a].m_pidl = last.b
    /\ heap[last.b].st = "live" /\ heap[last.prev].st # "live"


\* C14: clone(NULL) is NULL and calls allocate never; clone(L) of a non-null L
\* calls allocate once, for size(L) bytes, and returns a block that was not
\* allocated before, is not L, is of the strategy's kind and holds the first
\* size(L) bytes of L; L and every other block are as they were.
C14_CloneCopies ==
    [][(last'.op = "clone" /\ last'.status = "ok") =>
          /\ (last'.a = NULL) => (last'.ret = NULL /\ last'.attempts = 0 /\ heap' = heap)
          /\ (last'.a # NULL) =>
                /\ last'.attempts = 1 /\ last'.failed = 0
                /\ last'.ret \notin {NULL, last'.a}
                /\ heap[last'.ret].st = "unused" /\ heap'[last'.ret].st = "live"
                /\ heap'[last'.ret].kind \in Strategies
                /\ Len(heap'[last'.ret].mem) = size(heap, last'.a)
                /\ heap'[last'.ret].mem = Prefix(heap, last'.a, size(heap, last'.a))
                /\ \A x \in Handles \ {last'.ret} : heap'[x] = heap[x]]_vars

C14_Witness ==
    /\ last.op = "clone" /\ last.status = "ok"
    /\ last.a = 1 /\ Len(src[1]) = 2
    /\ Len(heap[1].mem) > size(heap, 1)
    /\ last.ret # NULL /\ heap[last.ret].kind = "cotaskmem_alloc"
    /\ Len(heap[last.ret].mem) = size(heap, 1)


\* C15: empty() is true exactly when get() is NULL or the first two bytes of
\* the PIDL, the cb of its first item, are 0; and exactly when size() is at
\* most 2, the size of a lone terminator.  It holds of what a caller reads and
\* of every wrapper whose PIDL is allocated.
C15_EmptyIffNoItems ==
    /\ (last.op = "inspect") =>
          /\ last.empty <=> (last.ret = NULL \/ SubSeq(heap[last.ret].mem, 1, 2) = <<0, 0>>)
          /\ last.empty <=> (last.size <= 2)
    /\ \A w \in Wrappers :
          (pidls[w].live /\ (pidls[w].m_pidl # NULL => heap[pidls[w].m_pidl].st = "live")) =>
             (basic_pidl_empty(heap, pidls[w]) <=> (basic_pidl_size(heap, pidls[w]) <= 2))

C15_Witness ==
    /\ last.op = "inspect" /\ last.empty
    /\ last.ret # NULL /\ last.size = 2
    /\ \E w \in Wrappers :
          /\ pidls[w].live /\ pidls[w].m_pidl # NULL
          /\ ~basic_pidl_empty(heap, pidls[w])


C17_JoinNeverAsserts ==
    JoinedOk =>
      /\ ~last.asserted
      /\ (pidls[last.ret].m_pidl = NULL) <=> ~SomeOperand


\* C18: the assertion of out() fails exactly when the medium holds a resource
\* (tymed is not 0), and the assertion of get() fails exactly when the medium
\* is empty (tymed is 0).
C18_GuardsEffective ==
    /\ (last.op = "medium_out") => (last.asserted <=> (media[last.a].tymed # 0))
    /\ (last.op = "medium_get") => (last.asserted <=> (media[last.a].tymed = 0))

\* C19: when BindToObject returns S_OK the new object has exactly one
\* reference, that of the pointer stored in *ppvOut; when QueryInterface or
\* _init has failed, the object it created has no reference and is destroyed.
C19_BindBalanced ==
    (last.op = "bind") =>
      /\ (last.status = "S_OK") =>
            /\ folders[last.ret].st = "alive"
            /\ folders[last.ret].refs = 1
      /\ (last.status # "S_OK" /\ folders[last.ret].st # "none") =>
            /\ folders[last.ret].st = "destroyed"
            /\ folders[last.ret].refs = 0


====
